---- MODULE Spec2Model ----
(***************************************************************************)
(* Model of django-workflow (workflow/models.py): the Workflow graph and   *)
(* its validation, and the WorkflowActivity state machine (start,          *)
(* progress, add_comment, force_stop) over the WorkflowHistory table.      *)
(*                                                                         *)
(* Database tables are variables: `states` and `transitions` hold the      *)
(* State and Transition rows, `activities` the WorkflowActivity rows and   *)
(* `workflowhistory` the WorkflowHistory rows in insertion (primary key)   *)
(* order.  datetime.today() / auto_now_add read `clock`, which advances at *)
(* every reading, so two timestamps taken one after the other differ.      *)
(* `sent` is what the latest WorkflowHistory.save() did, in order: the     *)
(* signals it sent and, between them, the INSERT.                          *)
(***************************************************************************)
EXTENDS Integers, Sequences, FiniteSets, TLC

VARIABLES states, transitions, status, errors, activities, workflowhistory,
          clock, last, calls, pc, local, sent

vars == <<states, transitions, status, errors, activities, workflowhistory,
          clock, last, calls, pc, local, sent>>

(* ----------------------------- bounds ---------------------------------- *)
MaxStates == 2
MaxCalls == 3
MaxTransitions == 2

(* ------------------------- program constants --------------------------- *)
DEFINITION == 0
ACTIVE == 1
RETIRED == 2
TRANSITION == 1
COMMENT == 2
SECOND == 1

\* None / NULL of a nullable column; primary keys and timestamps start at 1
None == 0

\* the workflow under study, the one every modelled activity belongs to,
\* and another workflow of the same database
TheWorkflow == 1
OtherWorkflow == 2
\* primary keys of the State rows: MaxStates states of TheWorkflow and one
\* state of OtherWorkflow
StateIds == 1..MaxStates
OtherState == MaxStates + 1
AllStateIds == StateIds \cup {OtherState}

\* the classes workflow/exceptions.py defines
ExceptionsModule ==
  {"UnableToActivateWorkflow", "UnableToStartWorkflow",
   "UnableToProgressWorkflow", "UnableToLogWorkflowEvent",
   "UnableToDisableParticipant", "UnableToEnableParticipant"}

\* what `raise Name(...)` produces for a name models.py imports from
\* workflow.exceptions: the class if the module defines it, else the import
\* of the name fails
Raise(name) == IF name \in ExceptionsModule THEN name ELSE "ImportError"

(* --------------------------- State rows -------------------------------- *)
is_start_state(s) == states[s].is_start_state
is_end_state(s) == states[s].is_end_state

\* State.deadline(): now + estimation_value * estimation_unit, or None
deadline(s, now) ==
  IF states[s].estimation_value > 0
    THEN now + states[s].estimation_value * states[s].estimation_unit
    ELSE None

\* State.objects.filter(workflow=w, is_start_state=True)
StartStates(w) ==
  {s \in DOMAIN states : states[s].workflow = w /\ states[s].is_start_state}

(* ------------------------------ Workflow ------------------------------- *)
\* workflow.states.all()
WorkflowStates(w) == {s \in DOMAIN states : states[s].workflow = w}

\* workflow.states.filter(is_end_state=True)
EndStates(w) == {s \in WorkflowStates(w) : states[s].is_end_state}

\* state.transitions_into.all() and state.transitions_from.all()
transitions_into(s) == {t \in transitions : t.to_state = s}
transitions_from(s) == {t \in transitions : t.from_state = s}

\* the orphan test exempting end states
Orphaned_SkipEnd(s) ==
  Cardinality(transitions_into(s)) = 0 /\ ~is_start_state(s) /\ ~is_end_state(s)

\* the orphan test with the `not` before is_start_state dropped
Orphaned_StartOnly(s) ==
  Cardinality(transitions_into(s)) = 0 /\ is_start_state(s)

\* the two per-state conditions of is_valid
Orphaned(s) == Cardinality(transitions_into(s)) = 0 /\ ~is_start_state(s)
DeadEnd(s) == Cardinality(transitions_from(s)) = 0 /\ ~is_end_state(s)

\* errors['workflow'] after is_valid
WorkflowErrors(w) ==
  (IF Cardinality(StartStates(w)) # 1
     THEN <<"There must be only one start state">> ELSE <<>>)
  \o (IF Cardinality(EndStates(w)) < 1
        THEN <<"There must be at least one end state">> ELSE <<>>)

\* errors['states'][s.id] after is_valid (no key when the list would be empty)
StateErrors(s) ==
  (IF Orphaned(s) THEN <<"This state is orphaned.">> ELSE <<>>)
  \o (IF DeadEnd(s) THEN <<"This state is a dead end.">> ELSE <<>>)

\* the errors dictionary is_valid leaves on the workflow object
Errors(w) ==
  [workflow |-> WorkflowErrors(w),
   states |-> [s \in {x \in WorkflowStates(w) : Orphaned(x) \/ DeadEnd(x)} |->
                 StateErrors(s)],
   transitions |-> <<>>]

\* is_valid that never looks for an end state
Valid_NoEndCheck(w) ==
  /\ Cardinality(StartStates(w)) = 1
  /\ \A s \in WorkflowStates(w) : ~Orphaned(s) /\ ~DeadEnd(s)

\* is_valid asking for at least one start state instead of exactly one
Valid_SomeStart(w) ==
  /\ ~(Cardinality(StartStates(w)) < 1)
  /\ ~(Cardinality(EndStates(w)) < 1)
  /\ \A s \in WorkflowStates(w) : ~Orphaned(s) /\ ~DeadEnd(s)

\* the boolean is_valid returns: no check cleared the `valid` flag
Valid(w) ==
  /\ ~(Cardinality(StartStates(w)) # 1)
  /\ ~(Cardinality(EndStates(w)) < 1)
  /\ \A s \in WorkflowStates(w) : ~Orphaned(s) /\ ~DeadEnd(s)

(* ----------------------- WorkflowHistory rows -------------------------- *)
\* activity.history.all(): the rows of one activity
HistoryOf(a) == {i \in DOMAIN workflowhistory : workflowhistory[i].workflowactivity = a}

\* current_state with the ordering reversed: the oldest row
current_state_oldest(a) ==
  IF HistoryOf(a) = {} THEN None
  ELSE CHOOSE i \in HistoryOf(a) :
         \A j \in HistoryOf(a) :
            workflowhistory[i].created_on <= workflowhistory[j].created_on

\* Meta.ordering = ['-created_on'] and .first(): the row with the greatest
\* created_on (None when the activity has no row)
current_state(a) ==
  IF HistoryOf(a) = {} THEN None
  ELSE CHOOSE i \in HistoryOf(a) :
         \A j \in HistoryOf(a) :
            workflowhistory[j].created_on <= workflowhistory[i].created_on

\* the state column of the current row (None without a row)
CurrentStateOf(a) ==
  IF current_state(a) = None THEN None ELSE workflowhistory[current_state(a)].state

\* the row WorkflowHistory(...) builds; save() stamps created_on
\* (auto_now_add) with the clock
NewRow(a, log_type, state, transition, note, dl) ==
  [workflowactivity |-> a, log_type |-> log_type, state |-> state,
   transition |-> transition, note |-> note, created_on |-> clock,
   deadline |-> dl]

\* save() writing over the newest row instead of inserting
save_overwrite(row) ==
  IF workflowhistory = <<>> THEN <<row>>
  ELSE [workflowhistory EXCEPT ![Len(workflowhistory)] = row]

\* WorkflowHistory.save() of a new object: INSERT, the table gains one row
save(row) == Append(workflowhistory, row)

\* save() inserting the row before it sends workflow_pre_change
SaveEvents_InsertFirst(row) ==
  <<"super.save", "workflow_pre_change", "workflow_post_change">>
  \o (IF row.log_type = TRANSITION THEN <<"workflow_transitioned">>
      ELSE IF row.log_type = COMMENT THEN <<"workflow_commented">>
      ELSE <<>>)
  \o (IF row.state # None
        THEN IF is_start_state(row.state) THEN <<"workflow_started">>
             ELSE IF is_end_state(row.state) THEN <<"workflow_ended">>
             ELSE <<>>
        ELSE <<>>)

\* the body of WorkflowHistory.save() for `row`, statement by statement:
\* the signals sent and the INSERT ("super.save"), in the order executed
SaveEvents(row) ==
  <<"workflow_pre_change", "super.save", "workflow_post_change">>
  \o (IF row.log_type = TRANSITION THEN <<"workflow_transitioned">>
      ELSE IF row.log_type = COMMENT THEN <<"workflow_commented">>
      ELSE <<>>)
  \o (IF row.state # None
        THEN IF is_start_state(row.state) THEN <<"workflow_started">>
             ELSE IF is_end_state(row.state) THEN <<"workflow_ended">>
             ELSE <<>>
        ELSE <<>>)

\* no transition (a NULL foreign key)
NoTransition == [from_state |-> None, to_state |-> None]

\* the outcome of a call: what was called with what, and the exception it
\* raised ("none" when it returned) or the value it returned
Call(op, a, transition, note, raised, returned) ==
  [op |-> op, activity |-> a, transition |-> transition, note |-> note,
   raised |-> raised, returned |-> returned]

\* the model stops accepting calls that return once MaxCalls have returned
\* (calls that raise change nothing and stay possible)
CanReturn == \A a \in DOMAIN calls : calls[a].returned < MaxCalls

\* bookkeeping of the calls made on activity a: `returned` counts the calls
\* that returned without raising, `silent` those among them that inserted no
\* row
Count(a, didReturn, inserted) ==
  [calls EXCEPT ![a].returned = @ + (IF didReturn THEN 1 ELSE 0),
                ![a].silent = @ + (IF didReturn /\ ~inserted THEN 1 ELSE 0)]

(* -------------------------- WorkflowActivity --------------------------- *)
\* start without the "already completed" check
StartRaises_NoCompletedCheck(a) ==
  IF current_state(a) # None /\ workflowhistory[current_state(a)].state # None
    THEN Raise("UnableToStartWorkflow")
  ELSE IF Cardinality(StartStates(activities[a].workflow)) # 1
    THEN Raise("UnableToStartWorkflow")
  ELSE "none"

\* the validation of WorkflowActivity.start
StartRaises(a) ==
  IF current_state(a) # None /\ workflowhistory[current_state(a)].state # None
    THEN Raise("UnableToStartWorkflow")
  ELSE IF activities[a].completed_on # None
    THEN Raise("UnableToStartWorkflow")
  ELSE IF Cardinality(StartStates(activities[a].workflow)) # 1
    THEN Raise("UnableToStartWorkflow")
  ELSE "none"

\* WorkflowActivity.start(user)
start(a) ==
  /\ LET start_state_result == StartStates(activities[a].workflow)
         raised == StartRaises(a)
     IN IF raised # "none"
          THEN /\ last' = Call("start", a, NoTransition, "", raised, None)
               /\ calls' = Count(a, FALSE, FALSE)
               /\ UNCHANGED <<workflowhistory, clock, sent>>
          ELSE LET s == CHOOSE x \in start_state_result : TRUE
                   wh == NewRow(a, TRANSITION, s, NoTransition, "Started workflow",
                                deadline(s, clock))
               IN /\ CanReturn
                  /\ workflowhistory' = save(wh)
                  /\ sent' = SaveEvents(wh)
                  /\ clock' = clock + 1
                  /\ calls' = Count(a, TRUE, TRUE)
                  /\ last' = Call("start", a, NoTransition, "", "none",
                                  Len(workflowhistory) + 1)
  /\ UNCHANGED <<states, transitions, status, errors, activities, pc, local>>

\* progress validating only that the activity has a row
ProgressRaises_NoParentCheck(cs, transition) ==
  IF cs = None THEN Raise("UnableToProgressWorkflow") ELSE "none"

\* progress comparing the transition's destination with the current state
ProgressRaises_ToState(cs, transition) ==
  IF cs = None
    THEN Raise("UnableToProgressWorkflow")
  ELSE IF transition.to_state # workflowhistory[cs].state
    THEN Raise("UnableToProgressWorkflow")
  ELSE "none"

\* progress validating against whatever row is newest when it validates,
\* not against the row it read
ProgressRaises_NewestRow(cs, transition) ==
  IF cs = None
    THEN Raise("UnableToProgressWorkflow")
  ELSE IF transition.from_state # workflowhistory[Len(workflowhistory)].state
    THEN Raise("UnableToProgressWorkflow")
  ELSE "none"

\* the validation of WorkflowActivity.progress against the row it read
ProgressRaises(cs, transition) ==
  IF cs = None
    THEN Raise("UnableToProgressWorkflow")
  ELSE IF transition.from_state # workflowhistory[cs].state
    THEN Raise("UnableToProgressWorkflow")
  ELSE "none"

\* completion decided on the transition's origin
CompletesOn_FromState(transition) == is_end_state(transition.from_state)

\* `if transition.to_state.is_end_state` of WorkflowActivity.progress
CompletesOn(transition) == is_end_state(transition.to_state)

\* WorkflowActivity.progress(transition, user, note='')
progress(a, transition) ==
  /\ LET raised == ProgressRaises(current_state(a), transition)
     IN IF raised # "none"
          THEN /\ last' = Call("progress", a, transition, "", raised, None)
               /\ calls' = Count(a, FALSE, FALSE)
               /\ UNCHANGED <<workflowhistory, activities, clock, sent>>
          ELSE /\ CanReturn
               /\ LET wh == NewRow(a, TRANSITION, transition.to_state, transition,
                                   "transition.name",
                                   deadline(transition.to_state, clock))
                  IN /\ workflowhistory' = save(wh)
                     /\ sent' = SaveEvents(wh)
               /\ IF CompletesOn(transition)
                    THEN /\ activities' = [activities EXCEPT ![a].completed_on = clock + 1]
                         /\ clock' = clock + 2
                    ELSE /\ UNCHANGED activities
                         /\ clock' = clock + 1
               /\ calls' = Count(a, TRUE, TRUE)
               /\ last' = Call("progress", a, transition, "", "none",
                               Len(workflowhistory) + 1)
  /\ UNCHANGED <<states, transitions, status, errors, pc, local>>

\* the row WorkflowActivity.add_comment builds
CommentRow(a, note) ==
  LET cs == current_state(a)
      state == IF cs # None THEN workflowhistory[cs].state ELSE None
      dl == IF state # None THEN workflowhistory[cs].deadline ELSE None
  IN NewRow(a, COMMENT, state, NoTransition, note, dl)

\* WorkflowActivity.add_comment(user, note)
add_comment(a, note) ==
  /\ IF note = ""
       THEN /\ last' = Call("add_comment", a, NoTransition, note,
                            Raise("UnableToAddCommentToWorkflow"), None)
            /\ calls' = Count(a, FALSE, FALSE)
            /\ UNCHANGED <<workflowhistory, clock, sent>>
       ELSE /\ CanReturn
            /\ workflowhistory' = save(CommentRow(a, note))
            /\ sent' = SaveEvents(CommentRow(a, note))
            /\ clock' = clock + 1
            /\ calls' = Count(a, TRUE, TRUE)
            /\ last' = Call("add_comment", a, NoTransition, note, "none",
                            Len(workflowhistory) + 1)
  /\ UNCHANGED <<states, transitions, status, errors, activities, pc, local>>

\* a forced stop that records no state
ForceStopRow_NoState(a, cs) ==
  NewRow(a, TRANSITION, None, NoTransition, "Workflow forced to stop!", None)

\* the row WorkflowActivity.force_stop builds from the current row cs
ForceStopRow(a, cs) ==
  NewRow(a, TRANSITION, workflowhistory[cs].state, NoTransition,
         "Workflow forced to stop!", None)

\* WorkflowActivity.force_stop(user, reason)
force_stop(a) ==
  /\ CanReturn
  /\ LET cs == current_state(a)
     IN IF cs # None
          THEN /\ workflowhistory' = save(ForceStopRow(a, cs))
               /\ sent' = SaveEvents(ForceStopRow(a, cs))
               /\ activities' = [activities EXCEPT ![a].completed_on = clock + 1]
               /\ clock' = clock + 2
               /\ calls' = Count(a, TRUE, TRUE)
          ELSE /\ UNCHANGED <<workflowhistory, sent>>
               /\ activities' = [activities EXCEPT ![a].completed_on = clock]
               /\ clock' = clock + 1
               /\ calls' = Count(a, TRUE, FALSE)
  /\ last' = Call("force_stop", a, NoTransition, "", "none", None)
  /\ UNCHANGED <<states, transitions, status, errors, pc, local>>

(* ------------------- progress, statement by statement ------------------ *)
\* The callers that may run WorkflowActivity.progress at the same time (two
\* requests, each in its own thread or process, sharing the database).  No
\* lock or transaction spans the statements of progress, so the statements
\* of different callers interleave.
Procs == {"p1", "p2"}

Idle == [activity |-> None, transition |-> NoTransition, current_state |-> None,
         raised |-> "none", row |-> None]

\* current_state = self.current_state()
progress_read(p, a, transition) ==
  /\ pc[p] = "idle"
  /\ local' = [local EXCEPT ![p] = [Idle EXCEPT !.activity = a,
                                               !.transition = transition,
                                               !.current_state = current_state(a)]]
  /\ pc' = [pc EXCEPT ![p] = "validate"]
  /\ UNCHANGED <<sent, states, transitions, status, errors, activities, workflowhistory,
                 clock, last, calls>>

\* the two `if ...: raise UnableToProgressWorkflow`
progress_validate(p) ==
  /\ pc[p] = "validate"
  /\ LET raised == ProgressRaises(local[p].current_state, local[p].transition)
     IN /\ local' = [local EXCEPT ![p].raised = raised]
        /\ pc' = [pc EXCEPT ![p] = IF raised # "none" THEN "raised" ELSE "save"]
  /\ UNCHANGED <<sent, states, transitions, status, errors, activities, workflowhistory,
                 clock, last, calls>>

\* wh = WorkflowHistory(...); wh.save()
progress_save(p) ==
  /\ pc[p] = "save"
  /\ LET t == local[p].transition
         wh == NewRow(local[p].activity, TRANSITION, t.to_state, t,
                      "transition.name", deadline(t.to_state, clock))
     IN /\ workflowhistory' = save(wh)
        /\ sent' = SaveEvents(wh)
  /\ clock' = clock + 1
  /\ local' = [local EXCEPT ![p].row = Len(workflowhistory) + 1]
  /\ pc' = [pc EXCEPT ![p] = "complete"]
  /\ UNCHANGED <<states, transitions, status, errors, activities, last, calls>>

\* if transition.to_state.is_end_state: self.completed_on = ...; self.save()
progress_complete(p) ==
  /\ pc[p] = "complete"
  /\ IF CompletesOn(local[p].transition)
       THEN /\ activities' = [activities EXCEPT ![local[p].activity].completed_on = clock]
            /\ clock' = clock + 1
       ELSE UNCHANGED <<activities, clock>>
  /\ pc' = [pc EXCEPT ![p] = "returned"]
  /\ UNCHANGED <<sent, states, transitions, status, errors, workflowhistory, last,
                 calls, local>>

(* ------------------------- Workflow operations ------------------------- *)
\* the workflow object before is_valid() has assigned self.errors: the
\* class declares no such attribute
NoAttribute == <<>>

\* what has_errors can be handed: a State, a Transition, anything else
Things ==
  [kind : {"State"}, id : DOMAIN states]
    \cup [kind : {"Transition"}, id : transitions]
    \cup {[kind |-> "Workflow", id |-> TheWorkflow]}

\* the outcome of has_errors(thing)
HasErrorsCall(thing, raised, returned) ==
  [op |-> "has_errors", activity |-> None, transition |-> NoTransition,
   note |-> "", raised |-> raised, returned |-> returned, thing |-> thing]

\* Workflow.has_errors(thing): self.errors is read only for a State or a
\* Transition
has_errors(thing) ==
  /\ IF thing.kind = "State"
       THEN IF DOMAIN errors = {}
              THEN last' = HasErrorsCall(thing, "AttributeError", None)
            ELSE IF thing.id \in DOMAIN errors.states
              THEN last' = HasErrorsCall(thing, "none", errors.states[thing.id])
            ELSE last' = HasErrorsCall(thing, "none", <<>>)
     ELSE IF thing.kind = "Transition"
       THEN IF DOMAIN errors = {}
              THEN last' = HasErrorsCall(thing, "AttributeError", None)
            ELSE IF thing.id \in DOMAIN errors.transitions
              THEN last' = HasErrorsCall(thing, "none", errors.transitions[thing.id])
            ELSE last' = HasErrorsCall(thing, "none", <<>>)
     ELSE last' = HasErrorsCall(thing, "none", <<>>)
  /\ UNCHANGED <<sent, states, transitions, status, errors, activities,
                 workflowhistory, clock, calls, pc, local>>

\* Workflow.is_valid()
is_valid ==
  /\ errors' = Errors(TheWorkflow)
  /\ last' = Call("is_valid", None, NoTransition, "", "none", Valid(TheWorkflow))
  /\ UNCHANGED <<sent, states, transitions, status, activities, workflowhistory,
                 clock, calls, pc, local>>

\* activate without the call of is_valid
activate_NoValidation ==
  /\ IF status # DEFINITION
       THEN /\ last' = Call("activate", None, NoTransition, "",
                            Raise("UnableToActivateWorkflow"), None)
            /\ UNCHANGED status
       ELSE /\ status' = ACTIVE
            /\ last' = Call("activate", None, NoTransition, "", "none", None)
  /\ UNCHANGED <<sent, states, transitions, errors, activities, workflowhistory,
                 clock, calls, pc, local>>

\* activate without the check of the status
activate_NoStatusCheck ==
  /\ IF ~Valid(TheWorkflow)
       THEN /\ last' = Call("activate", None, NoTransition, "",
                            Raise("UnableToActivateWorkflow"), None)
            /\ UNCHANGED status
       ELSE /\ status' = ACTIVE
            /\ last' = Call("activate", None, NoTransition, "", "none", None)
  /\ errors' = Errors(TheWorkflow)
  /\ UNCHANGED <<sent, states, transitions, activities, workflowhistory,
                 clock, calls, pc, local>>

\* Workflow.activate()
activate ==
  /\ IF status # DEFINITION
       THEN /\ last' = Call("activate", None, NoTransition, "",
                            Raise("UnableToActivateWorkflow"), None)
            /\ UNCHANGED <<status, errors>>
     ELSE IF ~Valid(TheWorkflow)
       THEN /\ errors' = Errors(TheWorkflow)
            /\ last' = Call("activate", None, NoTransition, "",
                            Raise("UnableToActivateWorkflow"), None)
            /\ UNCHANGED status
     ELSE /\ errors' = Errors(TheWorkflow)
          /\ status' = ACTIVE
          /\ last' = Call("activate", None, NoTransition, "", "none", None)
  /\ UNCHANGED <<sent, states, transitions, activities, workflowhistory,
                 clock, calls, pc, local>>

\* Workflow.retire()
retire ==
  /\ status' = RETIRED
  /\ last' = Call("retire", None, NoTransition, "", "none", None)
  /\ UNCHANGED <<sent, states, transitions, errors, activities, workflowhistory,
                 clock, calls, pc, local>>

(* --------------------------- specifications ---------------------------- *)
Notes == {"", "x"}
TransitionRows == [from_state : AllStateIds, to_state : AllStateIds]

\* State tables: the states of TheWorkflow carry any flags; OtherState is
\* the start state of OtherWorkflow; the estimation alternates between 0
\* (no deadline) and 1 second
StateTables ==
  {f \in [AllStateIds -> [is_start_state : BOOLEAN, is_end_state : BOOLEAN,
                          workflow : {TheWorkflow, OtherWorkflow},
                          estimation_value : {0, 1}, estimation_unit : {SECOND}]] :
     /\ \A s \in AllStateIds : f[s].estimation_value = s % 2
     /\ \A s \in StateIds : f[s].workflow = TheWorkflow
     /\ f[OtherState].workflow = OtherWorkflow
     /\ f[OtherState].is_start_state /\ ~f[OtherState].is_end_state}

TransitionTables == {T \in SUBSET TransitionRows : Cardinality(T) <= MaxTransitions}

\* the rest of the database after the graph has been defined: one activity
\* of TheWorkflow, not started
Fresh ==
  /\ status = DEFINITION
  /\ errors = NoAttribute
  /\ activities = [a \in {1} |-> [workflow |-> TheWorkflow, completed_on |-> None]]
  /\ workflowhistory = <<>>
  /\ clock = 1
  /\ last = Call("none", None, NoTransition, "", "none", None)
  /\ calls = [a \in {1} |-> [returned |-> 0, silent |-> 0]]
  /\ pc = None
  /\ local = None
  /\ sent = <<>>

\* one activity run on a graph in which every pair of states is joined by a
\* transition, so that progress is tried with every transition there can be
Init ==
  /\ states \in StateTables
  /\ transitions = TransitionRows
  /\ Fresh

Next ==
  \/ \E a \in DOMAIN activities : start(a)
  \/ \E a \in DOMAIN activities, t \in transitions : progress(a, t)
  \/ \E a \in DOMAIN activities, note \in Notes : add_comment(a, note)
  \/ \E a \in DOMAIN activities : force_stop(a)

Spec == Init /\ [][Next]_vars

\* the workflow object alone, on every graph of at most MaxTransitions
\* transitions over the state tables
GraphInit ==
  /\ states \in StateTables
  /\ transitions \in TransitionTables
  /\ Fresh

GraphNext ==
  \/ is_valid
  \/ activate
  \/ retire

SpecGraph == GraphInit /\ [][GraphNext]_vars

\* the error report of the workflow object, asked for before and after
\* validation, on the same graphs
ErrorsNext ==
  \/ is_valid
  \/ \E thing \in Things : has_errors(thing)

SpecErrors == GraphInit /\ [][ErrorsNext]_vars

\* a validated workflow in use: one activity started and progressed along
\* the transitions the graph has, on the same graphs
RunNext ==
  \/ is_valid
  \/ \E a \in DOMAIN activities : start(a)
  \/ \E a \in DOMAIN activities, t \in transitions : progress(a, t)

SpecRun == GraphInit /\ [][RunNext]_vars

\* an activity is started, then each caller makes one progress call on it,
\* the statements of the calls interleaved
ConcInit ==
  /\ states \in StateTables
  /\ transitions = TransitionRows
  /\ status = DEFINITION
  /\ errors = NoAttribute
  /\ activities = [a \in {1} |-> [workflow |-> TheWorkflow, completed_on |-> None]]
  /\ workflowhistory = <<>>
  /\ clock = 1
  /\ last = Call("none", None, NoTransition, "", "none", None)
  /\ calls = [a \in {1} |-> [returned |-> 0, silent |-> 0]]
  /\ pc = [p \in Procs |-> "idle"]
  /\ local = [p \in Procs |-> Idle]
  /\ sent = <<>>

ConcNext ==
  \/ \E a \in DOMAIN activities : (\A p \in Procs : pc[p] = "idle") /\ start(a)
  \/ \E p \in Procs, a \in DOMAIN activities, t \in transitions : progress_read(p, a, t)
  \/ \E p \in Procs : progress_validate(p)
  \/ \E p \in Procs : progress_save(p)
  \/ \E p \in Procs : progress_complete(p)

SpecConc == ConcInit /\ [][ConcNext]_vars

\* the workflow "Approval": Draft is the start state, Approved and Rejected
\* are end states; state ids are the positions in this list
ApprovalNames == <<"Draft", "Review", "Approved", "Rejected">>

StateNamed(name) == CHOOSE s \in DOMAIN ApprovalNames : ApprovalNames[s] = name

ApprovalStates ==
  [s \in DOMAIN ApprovalNames |->
     [is_start_state |-> ApprovalNames[s] = "Draft",
      is_end_state |-> ApprovalNames[s] \in {"Approved", "Rejected"},
      workflow |-> TheWorkflow,
      estimation_value |-> 0, estimation_unit |-> SECOND]]

Submit == [from_state |-> StateNamed("Draft"), to_state |-> StateNamed("Review")]
Approve == [from_state |-> StateNamed("Review"), to_state |-> StateNamed("Approved")]
Reject == [from_state |-> StateNamed("Review"), to_state |-> StateNamed("Draft")]

\* the workflow in definition with two activities created for it, neither
\* started
ApprovalInit ==
  /\ states = ApprovalStates
  /\ transitions = {Submit, Approve, Reject}
  /\ status = DEFINITION
  /\ errors = NoAttribute
  /\ activities = <<[workflow |-> TheWorkflow, completed_on |-> None],
                    [workflow |-> TheWorkflow, completed_on |-> None]>>
  /\ workflowhistory = <<>>
  /\ clock = 1
  /\ last = Call("none", None, NoTransition, "", "none", None)
  /\ calls = <<[returned |-> 0, silent |-> 0], [returned |-> 0, silent |-> 0]>>
  /\ pc = None
  /\ local = None
  /\ sent = <<>>

\* the calls that have returned, over the activities in A
RECURSIVE Returned(_)
Returned(A) ==
  IF A = {} THEN 0
  ELSE LET a == CHOOSE x \in A : TRUE
       IN calls[a].returned + Returned(A \ {a})

\* the workflow's life cycle and the calls on its activities, in any order;
\* the activities stop being called once MaxCalls calls have returned
ApprovalNext ==
  \/ activate
  \/ retire
  \/ /\ Returned(DOMAIN calls) < MaxCalls
     /\ \/ \E a \in DOMAIN activities : start(a)
        \/ \E a \in DOMAIN activities, t \in transitions : progress(a, t)
        \/ \E a \in DOMAIN activities, note \in Notes : add_comment(a, note)
        \/ \E a \in DOMAIN activities : force_stop(a)

SpecApproval == ApprovalInit /\ [][ApprovalNext]_vars

(* ------------------------------ claims --------------------------------- *)
Activities == DOMAIN activities
Row(i) == workflowhistory[i]
HasTransition(i) == Row(i).transition # NoTransition
\* the row of the same activity inserted immediately before row i (None if
\* row i is the activity's first)
PrevRow(i) ==
  LET before == {j \in HistoryOf(Row(i).workflowactivity) : j < i}
  IN IF before = {} THEN None ELSE CHOOSE j \in before : \A k \in before : k <= j
\* the last row inserted for activity a
NewestInserted(a) ==
  IF HistoryOf(a) = {} THEN None
  ELSE CHOOSE i \in HistoryOf(a) : \A j \in HistoryOf(a) : j <= i

\* C1: every history row that carries a transition has state = the
\* transition's to_state, and the transition's from_state is the state of
\* the row inserted immediately before it for the same activity.
C1_OnlyLegalMoves ==
  \A i \in DOMAIN workflowhistory :
    HasTransition(i) =>
      /\ Row(i).state = Row(i).transition.to_state
      /\ PrevRow(i) # None
      /\ Row(i).transition.from_state = Row(PrevRow(i)).state

\* two transitions were taken, one after the other
C1_Witness ==
  \E i, j \in DOMAIN workflowhistory :
    /\ i < j
    /\ HasTransition(i) /\ HasTransition(j)

\* C2 (as stated): after N calls that returned without raising the history
\* has exactly N rows and current_state() is the N-th inserted row (None
\* when N = 0).
C2_Original ==
  \A a \in Activities :
    /\ Cardinality(HistoryOf(a)) = calls[a].returned
    /\ current_state(a) = NewestInserted(a)

\* C2 (amended): after N calls that returned without raising, F of them
\* force_stop calls on an empty history, the history has exactly N - F rows
\* and current_state() is the last inserted row (None when there is none),
\* whose state is the activity's current state.
C2_HistoryCountsReturnedCalls ==
  \A a \in Activities :
    /\ Cardinality(HistoryOf(a)) = calls[a].returned - calls[a].silent
    /\ current_state(a) = NewestInserted(a)
    /\ CurrentStateOf(a) = IF NewestInserted(a) = None THEN None
                           ELSE Row(NewestInserted(a)).state

\* three calls returned, one of them a force_stop before any row existed
C2_Witness ==
  \E a \in Activities :
    /\ calls[a].returned = 3
    /\ calls[a].silent = 1
    /\ Cardinality(HistoryOf(a)) = 2

\* C3: a progress call on an activity without history, or with a transition
\* whose from_state is not the state of the newest row, raises
\* UnableToProgressWorkflow, inserts no row and leaves completed_on alone.
C3_IllegalProgressRejected ==
  [][\A a \in Activities :
       (/\ last'.op = "progress"
        /\ last'.activity = a
        /\ \/ HistoryOf(a) = {}
           \/ last'.transition.from_state # Row(NewestInserted(a)).state)
       => /\ last'.raised = "UnableToProgressWorkflow"
          /\ workflowhistory' = workflowhistory
          /\ activities' = activities]_vars

\* a progress call was rejected while the newest row is a comment made
\* before the activity was started (its state is NULL)
C3_Witness ==
  /\ last.op = "progress"
  /\ last.raised = "UnableToProgressWorkflow"
  /\ NewestInserted(last.activity) # None
  /\ Row(NewestInserted(last.activity)).log_type = COMMENT
  /\ Row(NewestInserted(last.activity)).state = None

\* C4: start() raises UnableToStartWorkflow and inserts nothing when the
\* newest row has a non-null state, or completed_on is set, or the workflow
\* does not have exactly one start state; otherwise it inserts exactly one
\* Transition row whose state is the unique start state.
C4_StartValidated ==
  [][\A a \in Activities :
       (last'.op = "start" /\ last'.activity = a) =>
         IF \/ CurrentStateOf(a) # None
            \/ activities[a].completed_on # None
            \/ Cardinality(StartStates(activities[a].workflow)) # 1
           THEN /\ last'.raised = "UnableToStartWorkflow"
                /\ workflowhistory' = workflowhistory
           ELSE /\ last'.raised = "none"
                /\ Len(workflowhistory') = Len(workflowhistory) + 1
                /\ SubSeq(workflowhistory', 1, Len(workflowhistory)) = workflowhistory
                /\ LET new == workflowhistory'[Len(workflowhistory')]
                   IN /\ new.workflowactivity = a
                      /\ new.log_type = TRANSITION
                      /\ StartStates(activities[a].workflow) = {new.state}]_vars

\* start() was called a second time: it raised and the history still holds
\* the single row of the first call
C4_Witness ==
  /\ last.op = "start"
  /\ last.raised = "UnableToStartWorkflow"
  /\ Cardinality(HistoryOf(last.activity)) = 1
  /\ Row(NewestInserted(last.activity)).note = "Started workflow"

\* a progress call into an end state has succeeded on activity a
Ended(a) ==
  \E i \in HistoryOf(a) : HasTransition(i) /\ is_end_state(Row(i).transition.to_state)

\* C5: once a progress(t) with t.to_state an end state has succeeded,
\* completed_on is non-null and every later start() raises
\* UnableToStartWorkflow.
C5_EndStateIsTerminal ==
  /\ [](\A a \in Activities : Ended(a) => activities[a].completed_on # None)
  /\ [][\A a \in Activities :
          (Ended(a) /\ last'.op = "start" /\ last'.activity = a)
            => last'.raised = "UnableToStartWorkflow"]_vars

\* start() was refused on an activity that reached an end state and was
\* commented on afterwards
C5_Witness ==
  /\ last.op = "start"
  /\ last.raised = "UnableToStartWorkflow"
  /\ Ended(last.activity)
  /\ Row(NewestInserted(last.activity)).log_type = COMMENT
\* C7: the history is append-only: across every call, successful or
\* failing, the table before the call is a prefix of the table after it.
C7_AppendOnly ==
  [][/\ Len(workflowhistory') >= Len(workflowhistory)
     /\ SubSeq(workflowhistory', 1, Len(workflowhistory)) = workflowhistory]_vars

\* a forced stop was logged behind two earlier rows
C7_Witness ==
  /\ last.op = "force_stop"
  /\ Len(workflowhistory) >= 3
  /\ Row(Len(workflowhistory)).note = "Workflow forced to stop!"

\* C8 (as stated): add_comment with an empty note raises
\* UnableToAddCommentToWorkflow and inserts nothing; with a non-empty note it
\* inserts exactly one Comment row whose state is the state of the previously
\* newest row (NULL if there was none) and changes neither completed_on nor
\* the state current_state() reports.
C8_CommentContract ==
  [][\A a \in Activities :
       (last'.op = "add_comment" /\ last'.activity = a) =>
         IF last'.note = ""
           THEN /\ last'.raised = "UnableToAddCommentToWorkflow"
                /\ workflowhistory' = workflowhistory
           ELSE /\ last'.raised = "none"
                /\ Len(workflowhistory') = Len(workflowhistory) + 1
                /\ SubSeq(workflowhistory', 1, Len(workflowhistory)) = workflowhistory
                /\ LET new == workflowhistory'[Len(workflowhistory')]
                   IN /\ new.workflowactivity = a
                      /\ new.log_type = COMMENT
                      /\ new.state = CurrentStateOf(a)
                /\ activities' = activities
                /\ CurrentStateOf(a)' = CurrentStateOf(a)]_vars

\* C9: force_stop on an activity that has a current row inserts exactly one
\* Transition row repeating the current state, without transition and with a
\* NULL deadline, and sets completed_on; a further force_stop leaves
\* completed_on non-null and the reported state the same.
C9_ForceStop ==
  [][\A a \in Activities :
       (last'.op = "force_stop" /\ last'.activity = a /\ current_state(a) # None) =>
         /\ Len(workflowhistory') = Len(workflowhistory) + 1
         /\ SubSeq(workflowhistory', 1, Len(workflowhistory)) = workflowhistory
         /\ LET new == workflowhistory'[Len(workflowhistory')]
            IN /\ new.workflowactivity = a
               /\ new.log_type = TRANSITION
               /\ new.state = CurrentStateOf(a)
               /\ new.transition = NoTransition
               /\ new.deadline = None
         /\ activities'[a].completed_on # None
         /\ CurrentStateOf(a)' = CurrentStateOf(a)]_vars

\* a started activity was force-stopped twice in a row
C9_Witness ==
  /\ last.op = "force_stop"
  /\ Len(workflowhistory) >= 3
  /\ Row(Len(workflowhistory)).note = "Workflow forced to stop!"
  /\ Row(Len(workflowhistory) - 1).note = "Workflow forced to stop!"
  /\ Row(Len(workflowhistory)).state # None
  /\ activities[last.activity].completed_on # None
\* the graph conditions in the words of the claim
WellFormed(w) ==
  /\ Cardinality({s \in WorkflowStates(w) : is_start_state(s)}) = 1
  /\ \E s \in WorkflowStates(w) : is_end_state(s)
  /\ \A s \in WorkflowStates(w) :
       ~is_start_state(s) => \E t \in transitions : t.to_state = s
  /\ \A s \in WorkflowStates(w) :
       ~is_end_state(s) => \E t \in transitions : t.from_state = s

ReportEmpty ==
  /\ errors.workflow = <<>>
  /\ DOMAIN errors.states = {}
  /\ DOMAIN errors.transitions = {}

Appended(p) == pc[p] \in {"complete", "returned"}

\* C6: with the read, the validation and the insert of progress as separate
\* steps, every row a caller inserts passed validation against the row that
\* caller read (its transition leaves the state of that row) -- also when
\* another caller has inserted in between, which is how two rows come to
\* follow from the same prior state.
C6_ValidatedAgainstRowRead ==
  \A p \in Procs :
    Appended(p) =>
      /\ local[p].current_state # None
      /\ Row(local[p].row).transition = local[p].transition
      /\ local[p].transition.from_state = Row(local[p].current_state).state

\* the lost update: both callers validated against the same newest row and
\* both inserted; the second row's transition does not leave the state of
\* the row just before it
C6_Witness ==
  \E p, q \in Procs :
    /\ p # q
    /\ Appended(p) /\ Appended(q)
    /\ local[p].current_state = local[q].current_state
    /\ local[p].row < local[q].row
    /\ PrevRow(local[q].row) = local[p].row
    /\ Row(local[q].row).transition.from_state # Row(local[p].row).state
    /\ ~C1_OnlyLegalMoves
\* C11: when the workflow does not have exactly one start state, is_valid()
\* returns false with a non-empty workflow-level error list, and activate()
\* raises UnableToActivateWorkflow.
C11_StartStateCount ==
  Cardinality({s \in WorkflowStates(TheWorkflow) : is_start_state(s)}) # 1 =>
    /\ last.op = "is_valid" => last.returned = FALSE /\ errors.workflow # <<>>
    /\ last.op = "activate" => last.raised = "UnableToActivateWorkflow"

\* activate() was refused on a workflow in definition that has two start
\* states, and the validation it ran left a workflow-level error
C11_Witness ==
  /\ Cardinality(StartStates(TheWorkflow)) = 2
  /\ status = DEFINITION
  /\ last.op = "activate"
  /\ last.raised = "UnableToActivateWorkflow"
  /\ errors.workflow # <<>>

\* C12: activate() raises UnableToActivateWorkflow and leaves the status
\* alone when the status is not Definition or the graph does not validate,
\* and otherwise sets the status to Active; so an Active workflow has a
\* graph that passed is_valid().
C12_Activate ==
  /\ [](status = ACTIVE => WellFormed(TheWorkflow))
  /\ [][last'.op = "activate" =>
          IF status # DEFINITION \/ ~WellFormed(TheWorkflow)
            THEN last'.raised = "UnableToActivateWorkflow" /\ status' = status
            ELSE last'.raised = "none" /\ status' = ACTIVE]_vars

\* a second activate() on the workflow it had activated was refused
C12_Witness ==
  /\ status = ACTIVE
  /\ last.op = "activate"
  /\ last.raised = "UnableToActivateWorkflow"

\* C13: retire() succeeds from any status and sets Retired; a Retired
\* workflow stays Retired and an Active one never returns to Definition.
C13_RetireIrreversible ==
  [][/\ last'.op = "retire" => last'.raised = "none" /\ status' = RETIRED
     /\ status = RETIRED => status' = RETIRED
     /\ status = ACTIVE => status' # DEFINITION]_vars

\* activate() was tried on a retired workflow whose graph validates
C13_Witness ==
  /\ status = RETIRED
  /\ Valid(TheWorkflow)
  /\ last.op = "activate"
  /\ last.raised = "UnableToActivateWorkflow"
\* the states a walk along the transitions reaches from the states in S
RECURSIVE Reach(_)
Reach(S) ==
  LET N == S \cup {t.to_state : t \in {u \in transitions : u.from_state \in S}}
  IN IF N = S THEN S ELSE Reach(N)

\* the states of the workflow no walk from a start state reaches
Unreachable ==
  WorkflowStates(TheWorkflow) \ Reach(StartStates(TheWorkflow))

C15_SignalOrder ==
  workflowhistory # <<>> =>
    LET wh == Row(Len(workflowhistory))
        typed == IF wh.log_type = TRANSITION THEN "workflow_transitioned"
                 ELSE "workflow_commented"
        tail == IF wh.state = None THEN <<>>
                ELSE IF states[wh.state].is_start_state THEN <<"workflow_started">>
                ELSE IF states[wh.state].is_end_state THEN <<"workflow_ended">>
                ELSE <<>>
        inserted == CHOOSE i \in DOMAIN sent : sent[i] = "super.save"
    IN /\ wh.log_type \in {TRANSITION, COMMENT}
       /\ Len(sent) = 4 + Len(tail)
       /\ sent[1] = "workflow_pre_change"
       /\ sent[2] = "super.save"
       /\ sent[3] = "workflow_post_change"
       /\ sent[4] = typed
       /\ \A i \in DOMAIN tail : sent[4 + i] = tail[i]
       /\ Cardinality({i \in DOMAIN sent : sent[i] \in
            {"workflow_transitioned", "workflow_commented"}}) = 1
       /\ \A i \in DOMAIN sent : i < inserted => sent[i] = "workflow_pre_change"

\* a comment was appended to an activity resting in a state that is both a
\* start and an end state: the fifth signal is workflow_started, none is
\* workflow_ended
C15_Witness ==
  /\ workflowhistory # <<>>
  /\ Row(Len(workflowhistory)).log_type = COMMENT
  /\ Row(Len(workflowhistory)).state # None
  /\ is_start_state(Row(Len(workflowhistory)).state)
  /\ is_end_state(Row(Len(workflowhistory)).state)
  /\ sent = <<"workflow_pre_change", "super.save", "workflow_post_change",
              "workflow_commented", "workflow_started">>
\* C17: has_errors(thing) returns the list recorded for that state or
\* transition, and returns an empty list, without failing, when nothing is
\* recorded for it, when the thing is neither a State nor a Transition, and
\* when is_valid() has not been run yet.
C17_HasErrors ==
  last.op = "has_errors" =>
    /\ last.raised = "none"
    /\ last.returned =
         IF DOMAIN errors = {} THEN <<>>
         ELSE IF last.thing.kind = "State" /\ last.thing.id \in DOMAIN errors.states
           THEN errors.states[last.thing.id]
         ELSE <<>>
IsApproval == states = ApprovalStates /\ transitions = {Submit, Approve, Reject}

\* the steps of the scenario after activation, for activity a: start() on
\* the new activity returns and leaves it in Draft; progress(Submit) from
\* there returns and leaves it in Review; progress(Approve) from there
\* returns, leaves it in Approved, sets completed_on and makes the third row
ScenarioSteps(a) ==
  /\ (last'.op = "start" /\ last'.activity = a /\ HistoryOf(a) = {}
        /\ activities[a].completed_on = None) =>
       /\ last'.raised = "none"
       /\ CurrentStateOf(a)' = StateNamed("Draft")
       /\ Cardinality(HistoryOf(a)') = 1
  /\ (last'.op = "progress" /\ last'.activity = a /\ last'.transition = Submit
        /\ Cardinality(HistoryOf(a)) = 1
        /\ CurrentStateOf(a) = StateNamed("Draft")) =>
       /\ last'.raised = "none"
       /\ CurrentStateOf(a)' = StateNamed("Review")
       /\ Cardinality(HistoryOf(a)') = 2
  /\ (last'.op = "progress" /\ last'.activity = a /\ last'.transition = Approve
        /\ Cardinality(HistoryOf(a)) = 2
        /\ CurrentStateOf(a) = StateNamed("Review")) =>
       /\ last'.raised = "none"
       /\ CurrentStateOf(a)' = StateNamed("Approved")
       /\ activities'[a].completed_on # None
       /\ Cardinality(HistoryOf(a)') = 3

\* C14 as stated: on the workflow "Approval", activate() sets the workflow
\* Active, and start, progress(Submit), progress(Approve) on a new activity
\* each succeed, passing through Draft, Review and Approved, with
\* completed_on set and three rows of history at the end.
C14_Scenario ==
  [][IsApproval =>
       /\ (last'.op = "activate" /\ status = DEFINITION) =>
            last'.raised = "none" /\ status' = ACTIVE
       /\ \A a \in Activities : ScenarioSteps(a)]_vars

\* C14: on the workflow "Approval", activate() raises
\* UnableToActivateWorkflow and leaves the workflow in definition, because
\* Rejected has no incoming transition and is_valid() reports it orphaned;
\* start, progress(Submit), progress(Approve) on a new activity each
\* succeed all the same, passing through Draft, Review and Approved, with
\* completed_on set and three rows of history at the end.
C14_ScenarioAmended ==
  [][IsApproval =>
       /\ (last'.op = "activate" /\ status = DEFINITION) =>
            /\ last'.raised = "UnableToActivateWorkflow"
            /\ status' = DEFINITION
            /\ StateNamed("Rejected") \in DOMAIN errors'.states
       /\ \A a \in Activities : ScenarioSteps(a)]_vars

\* the end of the scenario: activate() was refused with Rejected reported,
\* and an activity has gone start, Submit, Approve in three calls, rests in
\* Approved and is completed
C14_Witness ==
  /\ IsApproval
  /\ status = DEFINITION
  /\ DOMAIN errors # {}
  /\ StateNamed("Rejected") \in DOMAIN errors.states
  /\ \E a \in Activities :
       /\ calls[a].returned = 3
       /\ Cardinality(HistoryOf(a)) = 3
       /\ CurrentStateOf(a) = StateNamed("Approved")
       /\ activities[a].completed_on # None
       /\ last.op = "progress"
       /\ last.activity = a
       /\ last.transition = Approve
       /\ last.raised = "none"

\* C16: no activity of a workflow that is retired, or more generally not
\* active, can be successfully started.
C16_StartNeedsActive ==
  [][\A a \in Activities :
       (last'.op = "start" /\ last'.activity = a /\ last'.raised = "none"
          /\ workflowhistory' # workflowhistory) =>
         status = ACTIVE]_vars

\* C20: a start, progress, add_comment or force_stop call on one activity
\* leaves the rows and completed_on of every other activity as they were,
\* and leaves the workflow's status, states and transitions as they were.
C20_Independent ==
  [][\A a \in Activities :
       (last'.op \in {"start", "progress", "add_comment", "force_stop"}
          /\ last'.activity = a) =>
         /\ \A b \in Activities \ {a} :
              /\ activities'[b] = activities[b]
              /\ HistoryOf(b)' = HistoryOf(b)
              /\ \A i \in HistoryOf(b) : workflowhistory'[i] = workflowhistory[i]
         /\ status' = status
         /\ states' = states
         /\ transitions' = transitions]_vars

\* calls on two activities have interleaved: both have rows, the newest row
\* of the table belongs to the one called last, and the other one's rows
\* lie before and after rows of the first
C20_Witness ==
  \E a, b \in Activities :
    /\ a # b
    /\ last.activity = a
    /\ last.raised = "none"
    /\ \E i, k \in HistoryOf(a), j \in HistoryOf(b) : i < j /\ j < k
\* C21: once completed_on of an activity is set, by a progress into an end
\* state or by force_stop, no later call changes the state its newest row
\* reports; in particular progress() no longer moves the activity.
C21_CompletionIsTerminal ==
  [][\A a \in Activities :
       activities[a].completed_on # None =>
         CurrentStateOf(a)' = CurrentStateOf(a)]_vars

\* C22: between calls, in a workflow is_valid() accepts (a start state that
\* is also an end state included), an activity whose newest row reports an
\* end state has completed_on set.
C22_EndStateMeansCompleted ==
  \A a \in Activities :
    (/\ Valid(activities[a].workflow)
     /\ CurrentStateOf(a) # None
     /\ is_end_state(CurrentStateOf(a))) =>
      activities[a].completed_on # None
\* C23: every activity of a workflow is_valid() accepts can complete by
\* legal moves alone: from the start state and from every state it reaches
\* by progress calls, some sequence of progress calls leads to an end state.
C23_CanComplete ==
  \A a \in Activities :
    (Valid(activities[a].workflow) /\ CurrentStateOf(a) # None) =>
      \E e \in Reach({CurrentStateOf(a)}) : is_end_state(e)
====
